---- MODULE Spec2Model ----
(***************************************************************************)
(* py-check-imports: a model of py_check_imports.py.                       *)
(*                                                                         *)
(* Strings of source text (identifiers, dotted module names, canonical     *)
(* statement texts) are sequences of tokens, so that an f-string is a      *)
(* concatenation and str.split(".") is a scan for the "." token.  File     *)
(* paths are sequences of character codes, so that the order Python's      *)
(* sorted() puts on them and str.endswith are computed, not assumed.       *)
(***************************************************************************)
EXTENDS Integers, Sequences, FiniteSets, TLC

\* Longest source file, in lines (one statement per line).
MaxLines == 3

\* Deepest indentation of a line: 0 is module level.
MaxDepth == 1

(***************************************************************************)
(* Source text                                                             *)
(***************************************************************************)
NoStr == <<>>

Stmt(t, module, names, id) == [t |-> t, module |-> module, names |-> names, id |-> id]

Alias(name, asname) == [name |-> name, asname |-> asname]

\* def f():
S_def == Stmt("def", NoStr, <<>>, <<"f">>)
\* import os
S_import_os == Stmt("import", NoStr, <<Alias(<<"os">>, NoStr)>>, NoStr)
\* import os as o
S_import_os_as_o == Stmt("import", NoStr, <<Alias(<<"os">>, <<"o">>)>>, NoStr)
\* import os.path, sys
S_import_os_path_sys ==
  Stmt("import", NoStr, <<Alias(<<"os", ".", "path">>, NoStr), Alias(<<"sys">>, NoStr)>>, NoStr)
\* from os import path
S_from_os_import_path == Stmt("from", <<"os">>, <<Alias(<<"path">>, NoStr)>>, NoStr)
\* from . import os as o       (a relative import: node.module is None)
S_from_rel_import_os_as_o == Stmt("from", NoStr, <<Alias(<<"os">>, <<"o">>)>>, NoStr)
\* os                          (an expression statement: a bare name)
S_name_os == Stmt("name", NoStr, <<>>, <<"os">>)
\* os.path                     (an expression statement: an attribute of a name)
S_attr_os_path == Stmt("attr", NoStr, <<>>, <<"os">>)

StmtPool ==
  { S_def, S_import_os, S_import_os_as_o, S_import_os_path_sys,
    S_from_os_import_path, S_from_rel_import_os_as_o, S_name_os, S_attr_os_path }

\* Indentation levels of a line.
Indents == 0..MaxDepth

Line(indent, stmt) == [indent |-> indent, stmt |-> stmt]

SourceLines == [indent : Indents, stmt : StmtPool]

\* Every source text of at most MaxLines lines.
Sources == UNION { [1..n -> SourceLines] : n \in 0..MaxLines }

(***************************************************************************)
(* The syntax tree (module ast)                                            *)
(***************************************************************************)
Node(kind, lineno, children, names, module, id) ==
  [kind |-> kind, lineno |-> lineno, children |-> children,
   names |-> names, module |-> module, id |-> id]

NameNode(lineno, id) == Node("Name", lineno, <<>>, <<>>, NoStr, id)

\* The node of a one-line statement at line lineno.
SimpleNode(stmt, lineno) ==
  CASE stmt.t = "import" -> Node("Import", lineno, <<>>, stmt.names, NoStr, NoStr)
    [] stmt.t = "from"   -> Node("ImportFrom", lineno, <<>>, stmt.names, stmt.module, NoStr)
    [] stmt.t = "name"   -> Node("Expr", lineno, <<NameNode(lineno, stmt.id)>>, <<>>, NoStr, NoStr)
    [] stmt.t = "attr"   ->
         Node("Expr", lineno,
              <<Node("Attribute", lineno, <<NameNode(lineno, stmt.id)>>, <<>>, NoStr, NoStr)>>,
              <<>>, NoStr, NoStr)

ParseFail == [ok |-> FALSE, nodes |-> <<>>, next |-> 0]

\* The statements of the block at indentation d that starts at line i:
\* a deeper line is an unexpected indent, a def needs an indented block.
RECURSIVE ParseBlock(_, _, _)
ParseBlock(src, i, d) ==
  IF i > Len(src) \/ src[i].indent < d
  THEN [ok |-> TRUE, nodes |-> <<>>, next |-> i]
  ELSE IF src[i].indent > d THEN ParseFail
  ELSE IF src[i].stmt.t = "def"
  THEN IF i + 1 > Len(src) \/ src[i + 1].indent # d + 1 THEN ParseFail
       ELSE LET b == ParseBlock(src, i + 1, d + 1) IN
            IF ~b.ok THEN ParseFail
            ELSE LET rest == ParseBlock(src, b.next, d) IN
                 IF ~rest.ok THEN ParseFail
                 ELSE [ok |-> TRUE,
                       nodes |-> <<Node("FunctionDef", i, b.nodes, <<>>, NoStr, src[i].stmt.id)>>
                                 \o rest.nodes,
                       next |-> rest.next]
  ELSE LET rest == ParseBlock(src, i + 1, d) IN
       IF ~rest.ok THEN ParseFail
       ELSE [ok |-> TRUE,
             nodes |-> <<SimpleNode(src[i].stmt, i)>> \o rest.nodes,
             next |-> rest.next]

\* ast.parse(source): the Module node, or a SyntaxError.
ast_parse(source) ==
  LET b == ParseBlock(source, 1, 0) IN
  IF b.ok /\ b.next > Len(source)
  THEN [ok |-> TRUE, tree |-> Node("Module", 0, b.nodes, <<>>, NoStr, NoStr)]
  ELSE [ok |-> FALSE, tree |-> Node("Module", 0, <<>>, <<>>, NoStr, NoStr)]

\* ast.iter_child_nodes restricted to the nodes that matter here: the alias
\* children of an import are neither imports nor names and have no children.
iter_child_nodes(node) == node.children

\* ast.walk(tree): a deque of nodes to visit, popped on the left, each
\* node's children appended on the right.
RECURSIVE walk_todo(_)
walk_todo(todo) ==
  IF todo = <<>> THEN <<>>
  ELSE <<Head(todo)>> \o walk_todo(Tail(todo) \o iter_child_nodes(Head(todo)))

walk(tree) == walk_todo(<<tree>>)

(***************************************************************************)
(* find_unused_and_duplicate_imports_in_file                               *)
(***************************************************************************)
\* What open(filename, "r", encoding="utf-8").read() does with a file in disk
\* state d: the decoded text, or the exception it raises.
open_read(d) ==
  CASE d.st = "text"     -> [exc |-> "", source |-> d.src]
    [] d.st = "missing"  -> [exc |-> "FileNotFoundError", source |-> <<>>]
    [] d.st = "noperm"   -> [exc |-> "PermissionError", source |-> <<>>]
    [] d.st = "badbytes" -> [exc |-> "UnicodeDecodeError", source |-> <<>>]

\* The exceptions the first except clause names.
CaughtOSErrors == {"FileNotFoundError", "PermissionError"}

\* str(e) of an OSError.
os_error_message(exc) ==
  IF exc = "FileNotFoundError" THEN <<"[Errno 2] No such file or directory">>
  ELSE <<"[Errno 13] Permission denied">>

\* alias.name.split(".")[0]
RECURSIVE split_first(_)
split_first(name) ==
  IF name = <<>> \/ Head(name) = "." THEN <<>>
  ELSE <<Head(name)>> \o split_first(Tail(name))

\* The name an alias binds in the file's namespace.
bound_name(node, alias) ==
  IF alias.asname # NoStr THEN alias.asname
  ELSE IF node.kind = "Import" THEN split_first(alias.name)
  ELSE alias.name

as_clause(alias) == IF alias.asname # NoStr THEN <<" as ">> \o alias.asname ELSE <<>>

\* The canonical statement text of one target of an import statement.
stmt_str(node, alias) ==
  IF node.kind = "Import"
  THEN <<"import ">> \o alias.name \o as_clause(alias)
  ELSE <<"from ">> \o (IF node.module # NoStr THEN node.module ELSE <<>>)
       \o <<" import ">> \o alias.name \o as_clause(alias)

\* One (name, lineno, stmt_str) per target of an import node, in the order
\* of node.names; nothing for any other node.
node_bindings(node) ==
  IF node.kind \in {"Import", "ImportFrom"}
  THEN [k \in 1..Len(node.names) |->
          [name |-> bound_name(node, node.names[k]),
           lineno |-> node.lineno,
           stmt |-> stmt_str(node, node.names[k])]]
  ELSE <<>>

\* import_statements[stmt_str].append(lineno) on a defaultdict(list), which
\* keeps its keys in insertion order.
dict_append(dict, key, lineno) ==
  IF \E k \in 1..Len(dict) : dict[k].stmt = key
  THEN [k \in 1..Len(dict) |->
          IF dict[k].stmt = key
          THEN [stmt |-> key, lines |-> Append(dict[k].lines, lineno)]
          ELSE dict[k]]
  ELSE Append(dict, [stmt |-> key, lines |-> <<lineno>>])

\* import_aliases[name] = (lineno, stmt_str)
dict_set(dict, name, value) ==
  [x \in DOMAIN dict \cup {name} |-> IF x = name THEN value ELSE dict[x]]

NoImports == [imports |-> {}, import_aliases |-> <<>>, import_statements |-> <<>>]

\* The three assignments made for one import target.
record_import(acc, b) ==
  [imports |-> acc.imports \cup {b.name},
   import_aliases |-> dict_set(acc.import_aliases, b.name, <<b.lineno, b.stmt>>),
   import_statements |-> dict_append(acc.import_statements, b.stmt, b.lineno)]

RECURSIVE record_imports(_, _)
record_imports(bs, acc) ==
  IF bs = <<>> THEN acc
  ELSE record_imports(Tail(bs), record_import(acc, Head(bs)))

\* for node in ast.walk(tree): ...
RECURSIVE collect_imports(_, _)
collect_imports(nodes, acc) ==
  IF nodes = <<>> THEN acc
  ELSE collect_imports(Tail(nodes), record_imports(node_bindings(Head(nodes)), acc))

\* ImportVisitor: NodeVisitor.visit dispatches on the node's class.
RECURSIVE visit(_)
generic_visit(node) ==
  UNION { visit(node.children[k]) : k \in 1..Len(node.children) }

visit_Name(node) == {node.id}

\* A mutant of visit_Attribute: the base of the attribute is not visited.
visit_Attribute_skip(node) == {}

visit_Attribute(node) == generic_visit(node)

visit(node) ==
  CASE node.kind = "Name"      -> visit_Name(node)
    [] node.kind = "Attribute" -> visit_Attribute(node)
    [] OTHER                   -> generic_visit(node)

\* Every name an import of the pool can bind.
BoundNames == << <<"o">>, <<"os">>, <<"path">>, <<"sys">> >>

\* PYTHONHASHSEED: hash(str) is salted per process.
HashSeeds == {0, 1}

\* The position of a string in a set's table under a hash seed.  Two of the
\* orders a process can meet are kept: one and its reverse.
str_hash(name, seed) ==
  LET k == CHOOSE j \in 1..Len(BoundNames) : BoundNames[j] = name IN
  IF seed = 0 THEN k ELSE Len(BoundNames) + 1 - k

\* The order in which a for loop meets the elements of a set of strings.
RECURSIVE set_iter(_, _)
set_iter(S, seed) ==
  IF S = {} THEN <<>>
  ELSE LET m == CHOOSE x \in S : \A y \in S : str_hash(x, seed) <= str_hash(y, seed) IN
       <<m>> \o set_iter(S \ {m}, seed)

\* A mutant of unused_imports: the usage set is not subtracted.
unused_imports_all(imports, used) == imports

\* unused_imports = imports - used
unused_imports(imports, used) == imports \ used

unused_results(filename, names, import_aliases) ==
  [k \in 1..Len(names) |->
     [file |-> filename,
      line |-> import_aliases[names[k]][1],
      import_statement |-> import_aliases[names[k]][2]]]

\* A mutant of is_duplicate: a statement seen once is flagged too.
is_duplicate_once(lines) == Len(lines) > 0

\* if len(lines) > 1
is_duplicate(lines) == Len(lines) > 1

RECURSIVE duplicate_results(_, _)
duplicate_results(filename, items) ==
  IF items = <<>> THEN <<>>
  ELSE (IF is_duplicate(Head(items).lines)
        THEN <<[file |-> filename, lines |-> Head(items).lines,
                import_statement |-> Head(items).stmt]>>
        ELSE <<>>)
       \o duplicate_results(filename, Tail(items))

\* A call of the analyzer: the exception that leaves it ("" when it returns),
\* the pair it returns, and its locals when it got as far as the tree.
CallResult(exc, parsed, unused, duplicates, acc, used) ==
  [exc |-> exc, parsed |-> parsed, unused |-> unused, duplicates |-> duplicates,
   imports |-> acc.imports, import_aliases |-> acc.import_aliases,
   import_statements |-> acc.import_statements, used |-> used]

find_unused_and_duplicate_imports_in_file(filename, d, seed) ==
  LET rd == open_read(d) IN
  IF rd.exc \in CaughtOSErrors
  THEN CallResult("", FALSE, <<[file |-> filename, error |-> os_error_message(rd.exc)]>>,
                  <<>>, NoImports, {})
  ELSE IF rd.exc # ""
  THEN CallResult(rd.exc, FALSE, <<>>, <<>>, NoImports, {})
  ELSE LET p == ast_parse(rd.source) IN
  IF ~p.ok
  THEN CallResult("", FALSE,
                  <<[file |-> filename, error |-> <<"SyntaxError: ", "invalid syntax">>]>>,
                  <<>>, NoImports, {})
  ELSE LET acc == collect_imports(walk(p.tree), NoImports)
           used == visit(p.tree)
           names == set_iter(unused_imports(acc.imports, used), seed)
       IN CallResult("", TRUE,
                     unused_results(filename, names, acc.import_aliases),
                     duplicate_results(filename, acc.import_statements),
                     acc, used)

(***************************************************************************)
(* Paths and the file system                                               *)
(***************************************************************************)
\* "d": the directory a directory run is given.
DirPath == <<100>>
\* "m.py": the file a single-file run is given.
FilePath == <<109, 46, 112, 121>>
\* "x": a path that is neither a file nor a directory.
NoPath == <<120>>
\* "a.py", "b.py", "c.py", "n.txt": the names a directory can hold.
PyNames == { <<97, 46, 112, 121>>, <<98, 46, 112, 121>>, <<99, 46, 112, 121>> }
OtherNames == { <<110, 46, 116, 120, 116>> }

\* os.path.join(root, file)
path_join(root, file) == root \o <<47>> \o file

\* file.endswith(".py")
endswith_py(file) ==
  Len(file) >= 3 /\ SubSeq(file, Len(file) - 2, Len(file)) = <<46, 112, 121>>

\* The order of str and of list: lexicographic, a proper prefix first.
LexLess(a, b) ==
  \E k \in 1..Len(b) :
    /\ \A j \in 1..(k - 1) : j <= Len(a) /\ a[j] = b[j]
    /\ k = Len(a) + 1 \/ (k <= Len(a) /\ a[k] < b[k])

Unreadable(st) == [st |-> st, src |-> <<>>]
Text(src) == [st |-> "text", src |-> src]

\* import os / import os / import os.path, sys: one duplicated statement,
\* two unused names bound on the same line.
D_findings == <<Line(0, S_import_os), Line(0, S_import_os), Line(0, S_import_os_path_sys)>>
\* import os / os: nothing to report.
D_clean == <<Line(0, S_import_os), Line(0, S_name_os)>>
\* an indented first line: IndentationError, a SyntaxError.
D_syntax == <<Line(1, S_import_os)>>

\* What a file of a directory can be: a broken symlink, an unreadable file,
\* bytes that are not UTF-8, or one of three texts.
DirStates ==
  { Unreadable("missing"), Unreadable("noperm"), Unreadable("badbytes"),
    Text(D_findings), Text(D_clean), Text(D_syntax) }

\* What the file of a single-file run can be.
FileStates ==
  { Unreadable("noperm"), Unreadable("badbytes") } \cup { Text(src) : src \in Sources }

\* The contents of the directory: every subset of the names, each file in
\* every state.
DirDisks ==
  { [ p \in DOMAIN f \cup { path_join(DirPath, n) : n \in O } |->
        IF p \in DOMAIN f THEN f[p] ELSE Text(<<>>) ] :
    f \in UNION { [ { path_join(DirPath, n) : n \in P } -> DirStates ] : P \in SUBSET PyNames },
    O \in SUBSET OtherNames }

VARIABLES
  args_path,      \* args.path
  disk,           \* the files there are: path -> state on disk
  hashseed,       \* the hash seed of the running process
  pc,             \* where main is: start, loop, report, done, exited, crashed
  files,          \* main's files
  i,              \* how many of them the for loop has taken
  all_unused, all_duplicates, all_errors,
  out,            \* the three sorted lists that are printed
  exit_code,      \* the exit status of the process, -1 while it runs
  call,           \* the last call of the analyzer: its file and its result
  run,            \* 1 in the first run over this disk, 2 in the second
  prev_out        \* what the first run printed

vars == <<args_path, disk, hashseed, pc, files, i, all_unused, all_duplicates,
          all_errors, out, exit_code, call, run, prev_out>>

NoOut == [unused_imports |-> <<>>, duplicate_imports |-> <<>>, errors |-> <<>>]

NoCall == [made |-> FALSE, file |-> <<>>,
           r |-> CallResult("", FALSE, <<>>, <<>>, NoImports, {})]

isdir(path) == path = DirPath

\* os.path.isfile follows symlinks: a broken one is not a file.
isfile(path) == path \in DOMAIN disk /\ disk[path].st # "missing"

\* The .py paths under the directory, as a set.
py_files(directory) ==
  { path_join(directory, n) : n \in { m \in PyNames \cup OtherNames :
        endswith_py(m) /\ path_join(directory, m) \in DOMAIN disk } }

\* find_python_files_in_directory: os.walk lists a directory in the order
\* the file system gives, which is any order.
find_python_files_in_directory(directory) ==
  LET S == py_files(directory) IN
  { f \in [1..Cardinality(S) -> S] : \A a, b \in 1..Cardinality(S) : a # b => f[a] # f[b] }

RECURSIVE select_key(_, _)
select_key(results, key) ==
  IF results = <<>> THEN <<>>
  ELSE (IF key \in DOMAIN Head(results) THEN <<Head(results)>> ELSE <<>>)
       \o select_key(Tail(results), key)

\* The partition of the first list of a call's result, and the three extends.
accumulate(acc, r) ==
  [unused |-> acc.unused \o select_key(r.unused, "import_statement"),
   duplicates |-> acc.duplicates \o r.duplicates,
   errors |-> acc.errors \o select_key(r.unused, "error")]

\* A mutant of KeyLess: the file is left out of every key.
KeyLess_no_file(kind, a, b) ==
  CASE kind = "unused" -> a.line < b.line
    [] kind = "duplicates" -> LexLess(a.lines, b.lines)
    [] kind = "errors" -> FALSE

\* The three sort keys of main.
KeyLess(kind, a, b) ==
  CASE kind = "unused" ->
         LexLess(a.file, b.file) \/ (a.file = b.file /\ a.line < b.line)
    [] kind = "duplicates" ->
         LexLess(a.file, b.file) \/ (a.file = b.file /\ LexLess(a.lines, b.lines))
    [] kind = "errors" -> LexLess(a.file, b.file)

\* x put before the first element of a sorted list that is greater than x.
RECURSIVE insort(_, _, _)
insort(xs, x, kind) ==
  IF xs = <<>> THEN <<x>>
  ELSE IF KeyLess(kind, x, Head(xs)) THEN <<x>> \o xs
  ELSE <<Head(xs)>> \o insort(Tail(xs), x, kind)

\* sorted(results, key=...): a stable sort.
RECURSIVE sorted(_, _)
sorted(xs, kind) ==
  IF xs = <<>> THEN <<>>
  ELSE insort(sorted(SubSeq(xs, 1, Len(xs) - 1), kind), xs[Len(xs)], kind)

Init ==
  /\ \/ args_path = DirPath /\ disk \in DirDisks
     \/ args_path = FilePath /\ disk \in [{FilePath} -> FileStates]
     \/ args_path = NoPath /\ disk = <<>>
  /\ hashseed = 0
  /\ pc = "start"
  /\ files = <<>>
  /\ i = 0
  /\ all_unused = <<>>
  /\ all_duplicates = <<>>
  /\ all_errors = <<>>
  /\ out = NoOut
  /\ exit_code = -1
  /\ call = NoCall
  /\ run = 1
  /\ prev_out = NoOut

\* main, given a directory with no .py file: the message and sys.exit(1).
MainDirEmpty ==
  /\ pc = "start" /\ isdir(args_path)
  /\ py_files(args_path) = {}
  /\ \E seed \in HashSeeds : hashseed' = seed
  /\ pc' = "exited"
  /\ exit_code' = 1
  /\ UNCHANGED <<args_path, disk, files, i, all_unused, all_duplicates, all_errors,
                 out, call, run, prev_out>>

\* main, given a directory: the list of its .py files.
MainDir ==
  /\ pc = "start" /\ isdir(args_path)
  /\ py_files(args_path) # {}
  /\ \E seed \in HashSeeds : hashseed' = seed
  /\ \E order \in find_python_files_in_directory(args_path) : files' = order
  /\ i' = 0
  /\ pc' = "loop"
  /\ UNCHANGED <<args_path, disk, all_unused, all_duplicates, all_errors, out,
                 exit_code, call, run, prev_out>>

\* One turn of "for file in files": the call, the partition, the extends.
\* An exception that leaves the call leaves main: a traceback and status 1.
Loop ==
  /\ pc = "loop" /\ i < Len(files)
  /\ LET file == files[i + 1]
         r == find_unused_and_duplicate_imports_in_file(file, disk[file], hashseed)
         acc == accumulate([unused |-> all_unused, duplicates |-> all_duplicates,
                            errors |-> all_errors], r)
     IN /\ call' = [made |-> TRUE, file |-> file, r |-> r]
        /\ IF r.exc # ""
           THEN /\ pc' = "crashed"
                /\ exit_code' = 1
                /\ UNCHANGED <<i, all_unused, all_duplicates, all_errors>>
           ELSE /\ i' = i + 1
                /\ all_unused' = acc.unused
                /\ all_duplicates' = acc.duplicates
                /\ all_errors' = acc.errors
                /\ pc' = IF i + 1 = Len(files) THEN "report" ELSE "loop"
                /\ UNCHANGED exit_code
  /\ UNCHANGED <<args_path, disk, hashseed, files, out, run, prev_out>>

\* main, given a file: the same call, partition and extends, once.
MainFile ==
  /\ pc = "start" /\ ~isdir(args_path) /\ isfile(args_path)
  /\ \E seed \in HashSeeds :
       LET r == find_unused_and_duplicate_imports_in_file(args_path, disk[args_path], seed)
           acc == accumulate([unused |-> all_unused, duplicates |-> all_duplicates,
                              errors |-> all_errors], r)
       IN /\ hashseed' = seed
          /\ call' = [made |-> TRUE, file |-> args_path, r |-> r]
          /\ IF r.exc # ""
             THEN /\ pc' = "crashed"
                  /\ exit_code' = 1
                  /\ UNCHANGED <<all_unused, all_duplicates, all_errors>>
             ELSE /\ all_unused' = acc.unused
                  /\ all_duplicates' = acc.duplicates
                  /\ all_errors' = acc.errors
                  /\ pc' = "report"
                  /\ UNCHANGED exit_code
  /\ UNCHANGED <<args_path, disk, files, i, out, run, prev_out>>

\* main, given a path that is neither: the message and sys.exit(1).
MainInvalid ==
  /\ pc = "start" /\ ~isdir(args_path) /\ ~isfile(args_path)
  /\ \E seed \in HashSeeds : hashseed' = seed
  /\ pc' = "exited"
  /\ exit_code' = 1
  /\ UNCHANGED <<args_path, disk, files, i, all_unused, all_duplicates, all_errors,
                 out, call, run, prev_out>>

\* The three sorts and the printing; main returns and the status is 0.
Report ==
  /\ pc = "report"
  /\ out' = [unused_imports |-> sorted(all_unused, "unused"),
             duplicate_imports |-> sorted(all_duplicates, "duplicates"),
             errors |-> sorted(all_errors, "errors")]
  /\ pc' = "done"
  /\ exit_code' = 0
  /\ UNCHANGED <<args_path, disk, hashseed, files, i, all_unused, all_duplicates,
                 all_errors, call, run, prev_out>>

\* The tool is run a second time over the same, unchanged disk: a new
\* process, with empty lists.
Rerun ==
  /\ pc = "done" /\ run = 1
  /\ run' = 2
  /\ prev_out' = out
  /\ pc' = "start"
  /\ hashseed' = 0
  /\ files' = <<>>
  /\ i' = 0
  /\ all_unused' = <<>>
  /\ all_duplicates' = <<>>
  /\ all_errors' = <<>>
  /\ out' = NoOut
  /\ exit_code' = -1
  /\ call' = NoCall
  /\ UNCHANGED <<args_path, disk>>

Next ==
  \/ MainDirEmpty
  \/ MainDir
  \/ Loop
  \/ MainFile
  \/ MainInvalid
  \/ Report
  \/ Rerun

Spec == Init /\ [][Next]_vars

(***************************************************************************)
(* Vocabulary of the properties: what a file contains, read off its tree   *)
(* in source order, independently of ast.walk and of the visitor.          *)
(***************************************************************************)
\* The nodes of a tree in pre-order: a node, then its subtrees left to right.
RECURSIVE preorder(_)
RECURSIVE preorder_all(_)
preorder(node) == <<node>> \o preorder_all(node.children)

preorder_all(nodes) ==
  IF nodes = <<>> THEN <<>> ELSE preorder(Head(nodes)) \o preorder_all(Tail(nodes))

RECURSIVE bindings_of(_)
bindings_of(nodes) ==
  IF nodes = <<>> THEN <<>> ELSE node_bindings(Head(nodes)) \o bindings_of(Tail(nodes))

\* Every import target of a source text, in pre-order.
TreeBindings(src) == bindings_of(preorder(ast_parse(src).tree))

\* The identifiers of the name-reference nodes of a source text.
TreeNameIds(src) ==
  LET nodes == preorder(ast_parse(src).tree) IN
  { nodes[k].id : k \in { j \in 1..Len(nodes) : nodes[j].kind = "Name" } }

\* The names bound, and the canonical texts, of a sequence of import targets.
BoundIn(bs) == { bs[k].name : k \in 1..Len(bs) }

TextsIn(bs) == { bs[k].stmt : k \in 1..Len(bs) }

\* How many import targets have the canonical text t.
Occurrences(bs, t) == Cardinality({ k \in 1..Len(bs) : bs[k].stmt = t })

\* A file that cannot be read or cannot be parsed.
Fails(d) == d.st # "text" \/ ~ast_parse(d.src).ok

\* The last call of the analyzer got a tree.
Analyzed == call.made /\ call.r.parsed

CallSrc == disk[call.file].src

\* Record u of an unused list reports one of the import targets bs, of name n.
Reports(bs, u, n) ==
  \E k \in 1..Len(bs) :
    bs[k].name = n /\ bs[k].lineno = u.line /\ bs[k].stmt = u.import_statement

NonDecreasing(lines) == \A a, b \in 1..Len(lines) : a < b => lines[a] <= lines[b]

\* The .py files of the directory in ascending order of path.
AscendingFiles ==
  CHOOSE f \in find_python_files_in_directory(DirPath) :
    \A a, b \in 1..Len(f) : a < b => LexLess(f[a], f[b])

\* What main accumulates over a list of files, taken in that order.
RECURSIVE AccumulatedOver(_, _)
AccumulatedOver(order, seed) ==
  IF order = <<>> THEN [unused |-> <<>>, duplicates |-> <<>>, errors |-> <<>>]
  ELSE LET file == order[Len(order)] IN
       accumulate(AccumulatedOver(SubSeq(order, 1, Len(order) - 1), seed),
                  find_unused_and_duplicate_imports_in_file(file, disk[file], seed))

\* What a run over a list of files prints.
OutOver(order, seed) ==
  LET acc == AccumulatedOver(order, seed) IN
  [unused_imports |-> sorted(acc.unused, "unused"),
   duplicate_imports |-> sorted(acc.duplicates, "duplicates"),
   errors |-> sorted(acc.errors, "errors")]

InSeq(x, xs) == \E k \in 1..Len(xs) : xs[k] = x

FilesOf(results) == { results[k].file : k \in 1..Len(results) }

(***************************************************************************)
(* Properties                                                              *)
(***************************************************************************)

\* C1: in a directory run no failure of reading or parsing a candidate file
\* leaves the analyzer as an exception, and when the run is done every
\* candidate file has been analyzed and all its findings are in the output.
C1_PerFileFailuresCaught ==
  isdir(args_path) =>
    /\ call.made => call.r.exc = ""
    /\ pc # "crashed"
    /\ pc = "done" =>
         \A f \in py_files(args_path) :
           LET r == find_unused_and_duplicate_imports_in_file(f, disk[f], hashseed) IN
           /\ \A k \in 1..Len(r.duplicates) : InSeq(r.duplicates[k], out.duplicate_imports)
           /\ \A k \in 1..Len(select_key(r.unused, "import_statement")) :
                InSeq(select_key(r.unused, "import_statement")[k], out.unused_imports)
           /\ \A k \in 1..Len(select_key(r.unused, "error")) :
                InSeq(select_key(r.unused, "error")[k], out.errors)

\* C2: for a parsed file the unused findings are exactly one record per name
\* of (names bound by the file's imports) minus (identifiers referenced):
\* none missing, none extra, none twice.
C2_UnusedExactlyBoundMinusUsed ==
  Analyzed =>
    LET bs == TreeBindings(CallSrc)
        expected == BoundIn(bs) \ TreeNameIds(CallSrc)
        un == call.r.unused
    IN /\ Len(un) = Cardinality(expected)
       /\ \A n \in expected : \E k \in 1..Len(un) : Reports(bs, un[k], n)
       /\ \A k \in 1..Len(un) :
            /\ un[k].file = call.file
            /\ \E n \in expected : Reports(bs, un[k], n)

\* A parsed file with two unused bindings and an imported name that is used.
C2_Witness ==
  /\ Analyzed
  /\ Len(call.r.unused) >= 2
  /\ BoundIn(TreeBindings(CallSrc)) \cap TreeNameIds(CallSrc) # {}

\* C3: for a parsed file there is exactly one duplicate finding for each
\* canonical text recorded at least twice and none for any other text, and
\* the lines of a finding are lines of import targets with exactly that text.
C3_DuplicateIffTextTwice ==
  Analyzed =>
    LET bs == TreeBindings(CallSrc)
        dup == call.r.duplicates
    IN /\ \A t \in TextsIn(bs) :
            Cardinality({ k \in 1..Len(dup) : dup[k].import_statement = t })
              = IF Occurrences(bs, t) >= 2 THEN 1 ELSE 0
       /\ \A k \in 1..Len(dup) :
            /\ dup[k].file = call.file
            /\ dup[k].import_statement \in TextsIn(bs)
            /\ Len(dup[k].lines) = Occurrences(bs, dup[k].import_statement)
            /\ \A j \in 1..Len(dup[k].lines) :
                 \E b \in 1..Len(bs) :
                   bs[b].lineno = dup[k].lines[j] /\ bs[b].stmt = dup[k].import_statement

\* "import os" twice and "import os as o" once: one finding, of two lines.
C3_Witness ==
  /\ Analyzed
  /\ <<"import ", "os", " as ", "o">> \in TextsIn(TreeBindings(CallSrc))
  /\ Len(call.r.duplicates) = 1
  /\ call.r.duplicates[1].import_statement = <<"import ", "os">>
  /\ Len(call.r.duplicates[1].lines) = 2

\* C4: the lines of every duplicate finding are all the lines of its text,
\* in ascending order, wherever the import statements are nested.
C4_DuplicateLinesAscending ==
  Analyzed =>
    \A k \in 1..Len(call.r.duplicates) :
      LET d == call.r.duplicates[k]
          bs == TreeBindings(CallSrc)
      IN /\ NonDecreasing(d.lines)
         /\ \A b \in 1..Len(bs) :
              bs[b].stmt = d.import_statement => InSeq(bs[b].lineno, d.lines)

\* C5: a call on a file that cannot be read or parsed returns one FileError
\* record for that file and no other finding; in the output the file is in
\* errors and in neither other list, and no analyzed file is in errors.
C5_FailureIsOneFileError ==
  /\ (call.made /\ Fails(disk[call.file])) =>
       /\ call.r.exc = ""
       /\ Len(call.r.unused) = 1
       /\ DOMAIN call.r.unused[1] = {"file", "error"}
       /\ call.r.unused[1].file = call.file
       /\ call.r.duplicates = <<>>
  /\ pc = "done" =>
       \A f \in (IF isdir(args_path) THEN py_files(args_path) ELSE {args_path}) :
         IF Fails(disk[f])
         THEN /\ f \in FilesOf(out.errors)
              /\ f \notin FilesOf(out.unused_imports)
              /\ f \notin FilesOf(out.duplicate_imports)
         ELSE f \notin FilesOf(out.errors)

\* C6: the exit status is 1 exactly when the path is a directory without a
\* .py file or is neither a file nor a directory, and 0 in every other run.
C6_ExitCode ==
  exit_code # -1 =>
    /\ exit_code \in {0, 1}
    /\ exit_code = 1 <=>
         \/ isdir(args_path) /\ py_files(args_path) = {}
         \/ ~isdir(args_path) /\ ~isfile(args_path)

\* C7: a second run on the same unchanged file prints the same findings in
\* the same order as the first.
C7_SecondRunSameOutput ==
  (args_path = FilePath /\ run = 2 /\ pc = "done") => out = prev_out

\* C8: for every bound name, the (line, text) kept in import_aliases is that
\* of the last import of the name in a pre-order traversal of the tree.
C8_LastImportInPreOrder ==
  Analyzed =>
    LET bs == TreeBindings(CallSrc) IN
    \A n \in call.r.imports :
      LET last == CHOOSE k \in 1..Len(bs) :
                    bs[k].name = n /\ \A j \in (k + 1)..Len(bs) : bs[j].name # n
      IN call.r.import_aliases[n] = <<bs[last].lineno, bs[last].stmt>>

\* C9: the usage set is exactly the set of identifiers of the name nodes of
\* the tree, at any depth and under an attribute; an import adds nothing to
\* it, so a bound name is reported as unused exactly when no name node has it.
C9_UsageSetIsNameNodes ==
  Analyzed =>
    LET bs == TreeBindings(CallSrc)
        ids == TreeNameIds(CallSrc)
    IN /\ call.r.used = ids
       /\ \A n \in BoundIn(bs) :
            (n \notin ids) <=> \E k \in 1..Len(call.r.unused) : Reports(bs, call.r.unused[k], n)

\* "os" imported at module level and referenced only as the base of an
\* attribute inside a function body: nothing is reported.
C9_Witness ==
  /\ Analyzed
  /\ <<"os">> \in call.r.imports
  /\ call.r.unused = <<>>
  /\ \E k \in 1..Len(CallSrc) : CallSrc[k].indent = 0 /\ CallSrc[k].stmt.t = "import"
  /\ \E k \in 1..Len(CallSrc) : CallSrc[k].indent = 1 /\ CallSrc[k].stmt.t = "attr"
  /\ \A k \in 1..Len(CallSrc) :
       CallSrc[k].stmt.t \in {"name", "attr"} => CallSrc[k].indent = 1

\* C10: what a directory run prints is what a run over the same files in
\* ascending order of path prints, in whatever order the files were listed.
C10_OutputIndependentOfFileOrder ==
  (isdir(args_path) /\ pc = "done") => out = OutOver(AscendingFiles, hashseed)

\* A finished run over three files listed in another order than ascending,
\* with unused findings of two files and an error.
C10_Witness ==
  /\ isdir(args_path) /\ pc = "done"
  /\ Len(files) = 3
  /\ files # AscendingFiles
  /\ Cardinality(FilesOf(out.unused_imports)) >= 2
  /\ out.errors # <<>>

====
